---- MODULE Spec2Model ----
(***************************************************************************)
(* Model of analyze_deadline_results.py: the DeadlineAnalyzer aggregator   *)
(* (streams, gap_events, deadline_events), its two parsers, the metrics    *)
(* calculator and the main() driver.                                       *)
(*                                                                         *)
(* A Python dict is a function whose DOMAIN is the set of keys present.    *)
(* A text-log line is a sequence of tokens; the regular expressions of     *)
(* parse_client_log are evaluated over that sequence.                      *)
(***************************************************************************)
EXTENDS Integers, Sequences, FiniteSets, TLC

VARIABLES
    streams,          \* self.streams: stream id -> dict of fields
    gap_events,       \* self.gap_events (list)
    deadline_events,  \* self.deadline_events (list)
    pc,               \* position of main()
    logsLeft,         \* entries of client_logs not yet parsed
    qlogsLeft,        \* entries of qlog_files not yet parsed
    nread,            \* number of log lines and trace events read so far
    openMark,         \* Len(applied) when the current input file was opened
    applied,          \* history: the events applied to the aggregator, in order
    out,              \* what the run printed / wrote, as message tags
    metrics,          \* value returned by calculate_metrics, NoMetrics before
    exc,              \* the exception that ended main(), "none" otherwise
    report            \* report_text of generate_report, <<>> before it is built

vars == <<streams, gap_events, deadline_events, pc, logsLeft, qlogsLeft,
          nread, openMark, applied, out, metrics, exc, report>>

agg == <<streams, gap_events, deadline_events>>

----------------------------------------------------------------------------
(* Bounds *)

\* files returned by the glob of line 308, and by the glob of line 320
MaxLogFiles == 2
MaxQlogFiles == 1
\* log lines and trace events read in one run
MaxItems == 3

----------------------------------------------------------------------------
(* Python dict helpers *)

EmptyDict == [k \in {} |-> 0]

\* d[k] = v
DictSet(d, k, v) == (k :> v) @@ d

\* d.get(k, default)
DictGet(d, k, default) == IF k \in DOMAIN d THEN d[k] ELSE default

\* self.streams[stream_id] on a defaultdict(dict): a missing key is created
\* with an empty dict
Touch(s, id) == IF id \in DOMAIN s THEN s ELSE (id :> EmptyDict) @@ s

\* self.streams[stream_id][field] = v
SetField(s, id, field, v) ==
    LET t == Touch(s, id) IN [t EXCEPT ![id] = DictSet(t[id], field, v)]

----------------------------------------------------------------------------
(* Text-log lines *)

\* A token stands for a piece of text of a line:
\*   TS    "[hh:mm:ss]"
\*   SET   "Set deadline on stream <id>: <n> ms (<tag>)"
\*   DROP  "Stream <id>: Dropped <n> bytes due to deadline"
\*   STRM  "Stream <id>"
\*   DONE  "completed"
\*   TEXT  any other text
Tok(kind, id, n, tag, ts) == [kind |-> kind, id |-> id, n |-> n, tag |-> tag, ts |-> ts]
TS(t)            == Tok("TS", 0, 0, "", t)
SET(id, n, tag)  == Tok("SET", id, n, tag, "")
DROP(id, n)      == Tok("DROP", id, n, "", "")
STRM(id)         == Tok("STRM", id, 0, "", "")
DONE             == Tok("DONE", 0, 0, "", "")
TEXT             == Tok("TEXT", 0, 0, "", "")

\* Index of the first token of the line whose kind is in kinds, 0 when
\* there is none (re.search returns the leftmost match)
First(line, kinds) ==
    LET hits == {i \in 1..Len(line) : line[i].kind \in kinds} IN
    IF hits = {} THEN 0 ELSE CHOOSE i \in hits : \A j \in hits : i <= j

\* the text "Stream <digits>" occurs in a STRM token and at the start of a
\* DROP token
StreamNKinds == {"STRM", "DROP"}

\* re.search(stream_pattern, line)
MatchSet(line) == First(line, {"SET"})

\* re.search(gap_pattern, line)
MatchGap(line) == First(line, {"DROP"})

\* re.search(r"Stream (\d+).*completed", line): the leftmost "Stream <n>"
\* that has "completed" somewhere after it on the line
MatchComplete(line) ==
    LET i == First(line, StreamNKinds) IN
    IF i = 0 THEN 0
    ELSE IF \E j \in (i + 1)..Len(line) : line[j].kind = "DONE" THEN i
    ELSE 0

\* _extract_timestamp(line): the first bracketed hh:mm:ss of the line, as a
\* string, else the string "00:00:00"
_extract_timestamp(line) ==
    LET i == First(line, {"TS"}) IN
    IF i # 0 THEN line[i].ts ELSE "00:00:00"

----------------------------------------------------------------------------
(* Events, as recorded in the history variable *)

\* kind, the stream id, a number (deadline_ms, byte count or trace time), the
\* hard flag, the timestamp, and for a trace event its type and whether its
\* data carries a stream_id
Ev(kind, id, n, hard, time, type, has_id) ==
    [kind |-> kind, id |-> id, n |-> n, hard |-> hard, time |-> time,
     type |-> type, has_id |-> has_id]

EvDeadlineSet(id, ms, hard, time) == Ev("DeadlineSet", id, ms, hard, time, <<>>, TRUE)
EvDrop(id, bytes, time)           == Ev("Drop", id, bytes, FALSE, time, <<>>, TRUE)
EvCompleted(id, time)             == Ev("Completed", id, 0, FALSE, time, <<>>, TRUE)
EvStreamBlocked(id)               == Ev("StreamBlocked", id, 0, FALSE, "", <<>>, TRUE)
EvDeadlineTrace(e) ==
    Ev("DeadlineTrace", e.stream_id, e.time, FALSE, "", e.type, e.has_id)

----------------------------------------------------------------------------
(* Aggregator updates *)

\* variant: a deadline already set is kept (first writer wins)
ApplyDeadlineSet_FirstWins(s, id, ms, hard, time) ==
    IF id \in DOMAIN s /\ "deadline_ms" \in DOMAIN s[id] THEN s
    ELSE SetField(SetField(SetField(s, id, "deadline_ms", ms), id, "is_hard", hard),
                  id, "set_time", time)

\* lines 39-45
ApplyDeadlineSet(s, id, ms, hard, time) ==
    SetField(SetField(SetField(s, id, "deadline_ms", ms), id, "is_hard", hard),
             id, "set_time", time)

\* variant: the byte count replaces the previous value
ApplyDropRecord_Overwrite(s, id, bytes) == SetField(s, id, "bytes_dropped", bytes)

\* variant: the count continues from a running total shared by all streams
ApplyDropRecord_Shared(s, id, bytes) ==
    LET prev == {DictGet(s[i], "bytes_dropped", 0) : i \in DOMAIN s}
        top  == IF prev = {} THEN 0 ELSE CHOOSE x \in prev : \A y \in prev : x >= y
    IN SetField(s, id, "bytes_dropped", top + bytes)

\* lines 59-63
ApplyDropRecord(s, id, bytes) ==
    SetField(s, id, "bytes_dropped", DictGet(Touch(s, id)[id], "bytes_dropped", 0) + bytes)

\* lines 53-57
GapEntry(id, bytes, time) == [stream_id |-> id, bytes_dropped |-> bytes, time |-> time]

\* lines 68-70
ApplyCompleted(s, id, time) ==
    SetField(SetField(s, id, "completed", TRUE), id, "completion_time", time)

\* variant: the blocked event starts a record of its own for the id
ApplyBlocked_Fresh(s, id) ==
    DictSet(s, id, DictSet(EmptyDict, "blocked_events", 1))

\* lines 94-97
ApplyBlocked(s, id) ==
    SetField(s, id, "blocked_events", DictGet(Touch(s, id)[id], "blocked_events", 0) + 1)

----------------------------------------------------------------------------
(* parse_client_log, one iteration of the loop over the lines (lines 35-70) *)

\* lines 37-45
LineSet(s, line) ==
    LET i == MatchSet(line) IN
    IF i = 0 THEN s
    ELSE ApplyDeadlineSet(s, line[i].id, line[i].n, line[i].tag = "hard",
                          _extract_timestamp(line))

\* variant: only the first drop of a stream is written to its record
LineGapRecord_FirstOnly(s, line) ==
    LET i == MatchGap(line) IN
    IF i = 0 THEN s
    ELSE IF line[i].id \in DOMAIN s /\ "bytes_dropped" \in DOMAIN s[line[i].id]
    THEN s
    ELSE ApplyDropRecord(s, line[i].id, line[i].n)

\* lines 48-63, the record
LineGapRecord(s, line) ==
    LET i == MatchGap(line) IN
    IF i = 0 THEN s ELSE ApplyDropRecord(s, line[i].id, line[i].n)

\* variant: the entry is inserted at the front of the list
LineGapList_Front(g, line) ==
    LET i == MatchGap(line) IN
    IF i = 0 THEN g
    ELSE <<GapEntry(line[i].id, line[i].n, _extract_timestamp(line))>> \o g

\* lines 48-57, the gap list
LineGapList(g, line) ==
    LET i == MatchGap(line) IN
    IF i = 0 THEN g
    ELSE Append(g, GapEntry(line[i].id, line[i].n, _extract_timestamp(line)))

\* variant: the completion pattern is tried only when the other two failed
LineComplete_Elif(s, line) ==
    LET i == MatchComplete(line) IN
    IF i = 0 \/ MatchSet(line) # 0 \/ MatchGap(line) # 0 THEN s
    ELSE ApplyCompleted(s, line[i].id, _extract_timestamp(line))

\* lines 66-70
LineComplete(s, line) ==
    LET i == MatchComplete(line) IN
    IF i = 0 THEN s ELSE ApplyCompleted(s, line[i].id, _extract_timestamp(line))

\* the three checks of one iteration, in source order
LineStreams(s, line) == LineComplete(LineGapRecord(LineSet(s, line), line), line)

\* the events one line stands for, in the order the iteration applies them
EventsOfLine(line) ==
    LET i == MatchSet(line)
        j == MatchGap(line)
        k == MatchComplete(line)
        t == _extract_timestamp(line)
    IN  (IF i = 0 THEN <<>>
         ELSE <<EvDeadlineSet(line[i].id, line[i].n, line[i].tag = "hard", t)>>)
        \o (IF j = 0 THEN <<>> ELSE <<EvDrop(line[j].id, line[j].n, t)>>)
        \o (IF k = 0 THEN <<>> ELSE <<EvCompleted(line[k].id, t)>>)

\* The lines the model reads:
\*   "[00:00:01] Set deadline on stream 4: 100 ms (hard)"
\*   "[00:00:03] Stream 4: Dropped 20 bytes due to deadline"
\*   "Stream 4 completed"
\*   "[00:00:03] Set deadline on stream 4: 50 ms (soft)"
\*   "[00:00:03] Stream 4 completed"
\*   "Stream 5: Dropped 0 bytes due to deadline"
\*   "Stream 5 completed"
\*   "Stream 4: Dropped 20 bytes due to deadline, completed"
\*   "connection established"
Lines == {
    <<TS("00:00:01"), SET(4, 100, "hard")>>,
    <<TS("00:00:03"), DROP(4, 20)>>,
    <<STRM(4), DONE>>,
    <<TS("00:00:03"), SET(4, 50, "soft")>>,
    <<TS("00:00:03"), STRM(4), DONE>>,
    <<DROP(5, 0)>>,
    <<STRM(5), DONE>>,
    <<DROP(4, 20), DONE>>,
    <<TEXT>> }

----------------------------------------------------------------------------
(* parse_qlog *)

\* An event type is the sequence of its characters.
deadline == <<"d", "e", "a", "d", "l", "i", "n", "e">>

stream_data_blocked ==
    <<"s", "t", "r", "e", "a", "m", "_", "d", "a", "t", "a", "_", "b", "l", "o", "c", "k", "e", "d">>

Deadline_missed ==
    <<"D", "e", "a", "d", "l", "i", "n", "e", "_", "m", "i", "s", "s", "e", "d">>

packet_sent == <<"p", "a", "c", "k", "e", "t", "_", "s", "e", "n", "t">>

\* The characters whose str.lower() is a given letter of "deadline": the
\* letter and its ASCII capital. No other character of Unicode lower-cases
\* to one of these letters; U+0130 lower-cases to "i" followed by U+0307,
\* which cannot lie inside "deadline".
LowersTo ==
    ("d" :> {"d", "D"}) @@ ("e" :> {"e", "E"}) @@ ("a" :> {"a", "A"})
    @@ ("l" :> {"l", "L"}) @@ ("i" :> {"i", "I"}) @@ ("n" :> {"n", "N"})

\* needle in hay, on strings: needle occurs as a contiguous piece of hay
Contains(hay, needle) ==
    \E i \in 0..(Len(hay) - Len(needle)) :
        \A k \in 1..Len(needle) : hay[i + k] = needle[k]

\* needle in hay.lower(), for a needle made of letters of "deadline": some
\* contiguous piece of hay lower-cases, character by character, to needle
ContainsLowered(hay, needle) ==
    \E i \in 0..(Len(hay) - Len(needle)) :
        \A k \in 1..Len(needle) : hay[i + k] \in LowersTo[needle[k]]

\* variant: the type is searched without lower()
ContainsDeadline_CaseSensitive(type) == Contains(type, deadline)

\* 'deadline' in event_type.lower()   (line 85)
ContainsDeadline(type) == ContainsLowered(type, deadline)

\* event_type == 'stream_data_blocked'   (line 93)
IsBlockedType(type) == type = stream_data_blocked

\* One entry of the events list: [time, ..., data]. wellformed is FALSE for an
\* entry on which lines 81-82 raise (an empty list, or a last element that is
\* not an object). has_id says whether data carries a stream_id.
QEvent(time, wellformed, type, has_id, stream_id) ==
    [time |-> time, wellformed |-> wellformed, type |-> type,
     has_id |-> has_id, stream_id |-> stream_id]

QEvents == {
    QEvent(10, TRUE, stream_data_blocked, TRUE, 4),
    QEvent(11, TRUE, stream_data_blocked, FALSE, 0),
    QEvent(12, TRUE, Deadline_missed, TRUE, 5),
    QEvent(13, TRUE, packet_sent, FALSE, 0),
    QEvent(14, FALSE, <<>>, FALSE, 0) }

\* sequences over S of length at most n
SeqUpTo(S, n) == UNION {[1..k -> S] : k \in 0..n}

\* The trace documents of at most n events. load is "ok", "bad_json"
\* (json.load raises, line 76) or "bad_shape" (line 78 raises, e.g.
\* "traces": [] or a top-level list).
QlogDocs(n) ==
    {[load |-> "ok", events |-> es] : es \in SeqUpTo(QEvents, n)}
    \cup {[load |-> "bad_json", events |-> <<>>],
          [load |-> "bad_shape", events |-> <<>>]}

\* lines 86-90
TraceEntry(e) ==
    [time |-> e.time, type |-> e.type,
     data |-> [type |-> e.type, has_id |-> e.has_id, stream_id |-> e.stream_id]]

\* The loop of lines 80-97 from entry i on. st is
\* [s, d, h, failed]: streams, deadline_events, the events applied, and
\* whether an exception left the loop.
RECURSIVE QlogLoop(_, _, _)
QlogLoop(events, i, st) ==
    IF i > Len(events) THEN st
    ELSE LET e == events[i] IN
         IF ~e.wellformed THEN [st EXCEPT !.failed = TRUE]
         ELSE LET dl == ContainsDeadline(e.type)
                  bl == IsBlockedType(e.type) /\ e.has_id
                  d1 == IF dl THEN Append(st.d, TraceEntry(e)) ELSE st.d
                  s1 == IF bl THEN ApplyBlocked(st.s, e.stream_id) ELSE st.s
                  h1 == st.h
                        \o (IF dl THEN <<EvDeadlineTrace(e)>> ELSE <<>>)
                        \o (IF bl THEN <<EvStreamBlocked(e.stream_id)>> ELSE <<>>)
              IN QlogLoop(events, i + 1,
                          [s |-> s1, d |-> d1, h |-> h1, failed |-> FALSE])

\* parse_qlog(qlog_file), lines 74-100
parse_qlog(doc, s, d) ==
    IF doc.load # "ok"
    THEN [s |-> s, d |-> d, h |-> <<>>, failed |-> TRUE]
    ELSE QlogLoop(doc.events, 1, [s |-> s, d |-> d, h |-> <<>>, failed |-> FALSE])

----------------------------------------------------------------------------
(* calculate_metrics *)

\* The value of a - b at line 128. Both operands were stored by lines 45 and
\* 70 from _extract_timestamp, which returns a str on every path; Python
\* defines no subtraction on str, so evaluating the expression raises.
TypeError == "TypeError"
StrSub(a, b) == TypeError

HasDeadline(r) == "deadline_ms" \in DOMAIN r
HasTimes(r) == "completion_time" \in DOMAIN r /\ "set_time" \in DOMAIN r

\* line 128
Duration(r) == StrSub(r["completion_time"], r["set_time"])

\* the loop of lines 117-142 is left by an exception
CalcRaises(s) ==
    \E id \in DOMAIN s :
        HasDeadline(s[id]) /\ HasTimes(s[id]) /\ Duration(s[id]) = TypeError

\* lines 127-133: the records that reach line 132
MetIds(s) ==
    {id \in DOMAIN s :
        /\ HasDeadline(s[id]) /\ HasTimes(s[id])
        /\ Duration(s[id]) # TypeError
        /\ Duration(s[id]) <= s[id]["deadline_ms"]}

\* lines 136-138: the records that reach line 137
DropIds(s) == {id \in DOMAIN s : "bytes_dropped" \in DOMAIN s[id]}

\* the sum of f[x] over the x in S
RECURSIVE SumOver(_, _)
SumOver(S, f) ==
    IF S = {} THEN 0
    ELSE LET x == CHOOSE y \in S : TRUE IN f[x] + SumOver(S \ {x}, f)

\* a / b as a fraction
Frac(a, b) == [num |-> a, den |-> b]

NoMetrics == [raised |-> FALSE, computed |-> FALSE]

\* variant: the division is not guarded
ComplianceRate_Unguarded(met, withDl) == Frac(met, withDl)

\* lines 145-147; the initial value of line 114 is the integer 0
ComplianceRate(met, withDl) ==
    IF withDl > 0 THEN Frac(met, withDl) ELSE Frac(0, 1)

\* lines 149-151; without records the count of line 142 stays, and it is 0
CompletionRate(done, total) ==
    IF total > 0 THEN Frac(done, total) ELSE Frac(done, 1)

\* calculate_metrics(), lines 102-158: the exception, or the dict returned
calculate_metrics(s) ==
    IF CalcRaises(s) THEN [raised |-> TRUE, computed |-> FALSE]
    ELSE
    LET withDl == {id \in DOMAIN s : HasDeadline(s[id])}
        hard   == {id \in withDl : DictGet(s[id], "is_hard", FALSE)}
        met    == MetIds(s)
        done   == {id \in DOMAIN s : DictGet(s[id], "completed", FALSE)}
        total  == Cardinality(DOMAIN s)
        Dropped == [id \in DropIds(s) |-> s[id]["bytes_dropped"]]
        Margin  == [id \in met |-> s[id]["deadline_ms"] - Duration(s[id])]
    IN [raised |-> FALSE, computed |-> TRUE,
        total_streams |-> total,
        streams_with_deadlines |-> Cardinality(withDl),
        hard_deadlines |-> Cardinality(hard),
        soft_deadlines |-> Cardinality(withDl \ hard),
        deadlines_met |-> Cardinality(met),
        total_bytes_dropped |-> SumOver(DropIds(s), Dropped),
        streams_with_drops |-> Cardinality(DropIds(s)),
        completion_rate |-> CompletionRate(Cardinality(done), total),
        avg_deadline_margin |->
            IF met # {} THEN Frac(SumOver(met, Margin), Cardinality(met))
            ELSE Frac(0, 1),
        deadline_compliance_rate |->
            ComplianceRate(Cardinality(met), Cardinality(withDl))]

----------------------------------------------------------------------------
(* main() *)

\* a value of datetime.now()
datetime(year, month, day, hour, minute, second, microsecond) ==
    [year |-> year, month |-> month, day |-> day, hour |-> hour,
     minute |-> minute, second |-> second, microsecond |-> microsecond]

\* the values datetime.now() of line 168 can have: two instants within one
\* second and a third one a day later
WallClock ==
    { datetime(2026, 10, 29, 0, 0, 59, 0),
      datetime(2026, 10, 29, 0, 0, 59, 500000),
      datetime(2026, 10, 30, 0, 0, 59, 0) }

\* line 168, strftime('%Y-%m-%d %H:%M:%S'): the six numbers printed, each
\* zero-padded to its width; the microseconds are not printed
strftime(now) ==
    <<now.year, now.month, now.day, now.hour, now.minute, now.second>>

\* one line of the report: a fixed text and the number formatted into it
Line(text, n) == [text |-> text, n |-> n]

\* The rates (2q + 1) / 2000, q in 0..999, lie halfway between two
\* results of the format spec .1% . The code divides in binary floating
\* point, the format multiplies the quotient by 100 in binary floating point
\* and rounds the exact value of that product to one decimal, ties to
\* even. For the q below the product lies above the halfway point, or on it
\* with q odd, and the result is q + 1; for the other q it is q.
FloatTiesUp == {
    0, 3, 6, 7, 8, 10, 13, 14, 15, 16, 17, 20, 23, 24,
    27, 28, 33, 34, 37, 38, 39, 41, 44, 46, 47, 48, 49, 50,
    54, 56, 57, 58, 61, 64, 65, 66, 67, 68, 69, 77, 79, 80,
    81, 84, 85, 87, 91, 95, 96, 97, 99, 100, 101, 106, 107, 110,
    111, 114, 115, 116, 117, 121, 125, 126, 127, 129, 130, 131, 133, 134,
    135, 136, 137, 138, 139, 140, 147, 151, 155, 156, 157, 159, 160, 161,
    163, 165, 166, 167, 168, 169, 170, 171, 177, 180, 183, 185, 187, 188,
    190, 193, 195, 196, 197, 198, 199, 200, 201, 207, 210, 215, 217, 218,
    220, 223, 225, 226, 227, 228, 230, 231, 233, 237, 240, 245, 247, 248,
    250, 253, 255, 256, 257, 258, 260, 261, 263, 264, 265, 266, 267, 268,
    269, 270, 271, 272, 273, 274, 275, 276, 277, 278, 279, 280, 297, 305,
    307, 308, 310, 313, 315, 317, 318, 323, 324, 325, 327, 328, 329, 330,
    333, 334, 335, 336, 337, 338, 339, 340, 341, 343, 347, 353, 357, 358,
    363, 367, 368, 369, 373, 374, 377, 378, 379, 383, 384, 385, 387, 388,
    389, 390, 393, 394, 395, 397, 398, 399, 400, 401, 403, 404, 405, 407,
    417, 418, 423, 427, 428, 429, 433, 434, 437, 438, 439, 443, 444, 447,
    448, 449, 450, 453, 454, 455, 457, 458, 459, 460, 461, 463, 464, 465,
    466, 467, 468, 477, 478, 483, 487, 488, 493, 494, 497, 498, 499, 527,
    537, 543, 547, 548, 553, 554, 557, 558, 559, 563, 564, 567, 568, 569,
    573, 574, 575, 577, 578, 579, 580, 583, 584, 585, 586, 587, 588, 589,
    590, 591, 593, 594, 595, 596, 597, 598, 599, 600, 601, 603, 604, 605,
    606, 607, 608, 609, 610, 611, 612, 613, 614, 615, 616, 617, 618, 619,
    620, 621, 622, 623, 624, 644, 647, 649, 654, 657, 659, 664, 667, 669,
    671, 674, 676, 677, 679, 681, 684, 686, 687, 689, 691, 694, 696, 697,
    699, 701, 704, 706, 707, 708, 709, 711, 713, 714, 716, 717, 718, 719,
    721, 723, 724, 726, 727, 728, 729, 731, 733, 734, 735, 736, 737, 738,
    739, 740, 741, 743, 744, 745, 746, 747, 748, 749, 757, 767, 769, 774,
    777, 779, 784, 787, 789, 794, 796, 797, 799, 801, 804, 806, 807, 809,
    811, 814, 816, 817, 819, 821, 824, 826, 827, 829, 831, 833, 834, 836,
    837, 838, 839, 841, 843, 844, 846, 847, 848, 849, 851, 853, 854, 856,
    857, 858, 859, 860, 861, 863, 864, 865, 866, 867, 868, 869, 870, 871,
    873, 874, 877, 887, 894, 897, 899, 904, 907, 909, 914, 917, 919, 921,
    924, 926, 927, 929, 931, 934, 936, 937, 939, 941, 944, 946, 947, 949,
    951, 954, 956, 957, 958, 959, 961, 963, 964, 966, 967, 968, 969, 971,
    973, 974, 976, 977, 978, 979, 981, 983, 984, 985, 986, 987, 988, 989,
    990, 991, 993, 994, 995, 996, 997, 998, 999 }

\* format spec .1% of lines 180 and 190 applied to the float num / den, a
\* rate between 0 and 1: the result in tenths of a percent
PerMille(f) ==
    LET q == (1000 * f.num) \div f.den
        r == (1000 * f.num) % f.den
    IN  IF 2 * r > f.den THEN q + 1
        ELSE IF 2 * r = f.den /\ q \in FloatTiesUp THEN q + 1
        ELSE q

\* format spec .1f of line 181: a ratio as tenths, ties to the even digit.
\* The only value the calculator returns is the 0 of line 156 (the mean of
\* line 154 needs a record that passed line 128).
Tenths(f) ==
    LET q == (10 * f.num) \div f.den
        r == (10 * f.num) % f.den
    IN  IF 2 * r > f.den THEN q + 1
        ELSE IF 2 * r = f.den THEN q + (q % 2)
        ELSE q

\* format spec , : the groups of three digits, most significant first
RECURSIVE Grouped(_)
Grouped(n) ==
    IF n < 1000 THEN <<n>> ELSE Append(Grouped(n \div 1000), n % 1000)

\* lines 165-169
ReportHeader(now) ==
    << Line("=", 60),
       Line("Deadline-Aware Streams Performance Report", 0),
       Line("=", 60),
       Line("Generated:", strftime(now)),
       Line("", 0) >>

\* lines 171-191
ReportMetrics(m) ==
    << Line("Stream Statistics:", 0),
       Line("  Total streams:", m.total_streams),
       Line("  Streams with deadlines:", m.streams_with_deadlines),
       Line("    - Hard deadlines:", m.hard_deadlines),
       Line("    - Soft deadlines:", m.soft_deadlines),
       Line("", 0),
       Line("Deadline Performance:", 0),
       Line("  Deadlines met:", m.deadlines_met),
       Line("  Compliance rate: %", PerMille(m.deadline_compliance_rate)),
       Line("  Average margin: ms", Tenths(m.avg_deadline_margin)),
       Line("", 0),
       Line("Partial Reliability:", 0),
       Line("  Streams with drops:", m.streams_with_drops),
       [text |-> "  Total bytes dropped:", n |-> 0,
        groups |-> Grouped(m.total_bytes_dropped)],
       Line("", 0),
       Line("Completion Statistics:", 0),
       Line("  Completion rate: %", PerMille(m.completion_rate)),
       Line("", 0) >>

\* lines 201-206: one row of the table
ReportRow(stream_id, data) ==
    [stream |-> stream_id,
     deadline |-> IF "deadline_ms" \in DOMAIN data
                  THEN Line("ms", data["deadline_ms"])
                  ELSE Line("No deadline", 0),
     dtype |-> IF DictGet(data, "is_hard", FALSE) THEN "Hard"
               ELSE IF "deadline_ms" \in DOMAIN data THEN "Soft"
               ELSE "N/A",
     status |-> IF DictGet(data, "completed", FALSE) THEN "Completed"
                ELSE "Incomplete",
     dropped |-> Grouped(DictGet(data, "bytes_dropped", 0))]

\* line 200: the rows in ascending order of stream id
RECURSIVE ReportRows(_, _)
ReportRows(s, ids) ==
    IF ids = {} THEN <<>>
    ELSE LET id == CHOOSE i \in ids : \A j \in ids : i <= j
         IN  <<ReportRow(id, s[id])>> \o ReportRows(s, ids \ {id})

\* lines 194-206
ReportTable(s) ==
    IF DOMAIN s = {} THEN <<>>
    ELSE << Line("Per-Stream Details:", 0),
            Line("-", 60),
            Line("Stream Deadline Type Status Dropped", 0),
            Line("-", 60) >> \o ReportRows(s, DOMAIN s)

\* lines 164-208
report_text(s, m, now) ==
    ReportHeader(now) \o ReportMetrics(m) \o ReportTable(s)

Init ==
    /\ streams = EmptyDict
    /\ gap_events = <<>>
    /\ deadline_events = <<>>
    /\ pc = "start"
    /\ logsLeft = 0
    /\ qlogsLeft = 0
    /\ nread = 0
    /\ openMark = 0
    /\ applied = <<>>
    /\ out = <<>>
    /\ metrics = NoMetrics
    /\ exc = "none"
    /\ report = <<>>

\* variant: an empty list of client logs is not checked
Start_NoCheck ==
    /\ pc = "start"
    /\ \E nl \in 0..MaxLogFiles :
        /\ logsLeft' = nl
        /\ pc' = IF nl = 0 THEN "globqlogs" ELSE "logs"
    /\ UNCHANGED <<report, streams, gap_events, deadline_events, qlogsLeft, nread,
                   openMark, applied, out, metrics, exc>>

\* lines 301-312: the glob of the client logs
Start ==
    /\ pc = "start"
    /\ \E nl \in 0..MaxLogFiles :
        /\ logsLeft' = nl
        /\ IF nl = 0
           THEN /\ out' = Append(out, "NoClientLogs")
                /\ pc' = "returned1"
           ELSE /\ out' = out
                /\ pc' = "logs"
    /\ UNCHANGED <<report, streams, gap_events, deadline_events, qlogsLeft, nread,
                   openMark, applied, metrics, exc>>

\* lines 314-316 and 34: the next log file is opened
OpenLog ==
    /\ pc = "logs"
    /\ logsLeft > 0
    /\ out' = Append(out, "Parsing")
    /\ openMark' = Len(applied)
    /\ pc' = "reading"
    /\ UNCHANGED <<report, streams, gap_events, deadline_events, logsLeft, qlogsLeft,
                   nread, applied, metrics, exc>>

\* lines 314-316 and 34: open() raises (missing permission, a directory that
\* matches the pattern); nothing in parse_client_log or main catches it
OpenLogFails ==
    /\ pc = "logs"
    /\ logsLeft > 0
    /\ out' = Append(out, "Parsing")
    /\ openMark' = Len(applied)
    /\ pc' = "aborted"
    /\ exc' = "OSError"
    /\ UNCHANGED <<report, streams, gap_events, deadline_events, logsLeft, qlogsLeft,
                   nread, applied, metrics>>

\* lines 35-70: one line is read and handled
ReadLine ==
    /\ pc = "reading"
    /\ nread < MaxItems
    /\ \E line \in Lines :
        /\ streams' = LineStreams(streams, line)
        /\ gap_events' = LineGapList(gap_events, line)
        /\ applied' = applied \o EventsOfLine(line)
    /\ nread' = nread + 1
    /\ UNCHANGED <<report, deadline_events, pc, logsLeft, qlogsLeft, openMark, out,
                   metrics, exc>>

\* line 35: reading the next line raises (an undecodable byte, an I/O error)
ReadFails ==
    /\ pc = "reading"
    /\ pc' = "aborted"
    /\ exc' = "ReadError"
    /\ UNCHANGED <<report, streams, gap_events, deadline_events, logsLeft, qlogsLeft,
                   nread, openMark, applied, out, metrics>>

\* line 35: end of file; back in the loop of line 314
EndOfLog ==
    /\ pc = "reading"
    /\ logsLeft' = logsLeft - 1
    /\ pc' = IF logsLeft = 1 THEN "globqlogs" ELSE "logs"
    /\ UNCHANGED <<report, streams, gap_events, deadline_events, qlogsLeft, nread,
                   openMark, applied, out, metrics, exc>>

\* lines 319-320: the glob of the trace files (none without --qlog-dir)
GlobQlogs ==
    /\ pc = "globqlogs"
    /\ \E nq \in 0..MaxQlogFiles : qlogsLeft' = nq
    /\ pc' = "qlogs"
    /\ UNCHANGED <<report, streams, gap_events, deadline_events, logsLeft, nread,
                   openMark, applied, out, metrics, exc>>

\* lines 321-323 with parse_qlog, lines 72-100
ParseQlog ==
    /\ pc = "qlogs"
    /\ qlogsLeft > 0
    /\ \E doc \in QlogDocs(MaxItems - nread) :
        LET r == parse_qlog(doc, streams, deadline_events) IN
        /\ streams' = r.s
        /\ deadline_events' = r.d
        /\ applied' = applied \o r.h
        /\ out' = out \o <<"ParsingQlog">>
                      \o (IF r.failed THEN <<"ErrorParsingQlog">> ELSE <<>>)
        /\ nread' = nread + Len(doc.events)
    /\ openMark' = Len(applied)
    /\ qlogsLeft' = qlogsLeft - 1
    /\ UNCHANGED <<report, gap_events, pc, logsLeft, metrics, exc>>

\* variant: the report does not wait for the trace files
GenerateReport_Early ==
    /\ pc = "qlogs"
    /\ ~calculate_metrics(streams).raised
    /\ metrics' = calculate_metrics(streams)
    /\ \E now \in WallClock :
        report' = report_text(streams, calculate_metrics(streams), now)
    /\ out' = Append(out, "Report")
    /\ \E p \in BOOLEAN : pc' = IF p THEN "plot" ELSE "returned0"
    /\ UNCHANGED <<streams, gap_events, deadline_events, logsLeft, qlogsLeft,
                   nread, openMark, applied, exc>>

\* variant: the renderer reads the dropped bytes with setdefault
GenerateReport_Writes ==
    /\ pc = "qlogs"
    /\ qlogsLeft = 0
    /\ ~calculate_metrics(streams).raised
    /\ metrics' = calculate_metrics(streams)
    /\ \E now \in WallClock :
        report' = report_text(streams, calculate_metrics(streams), now)
    /\ streams' = [id \in DOMAIN streams |->
                     DictSet(streams[id], "bytes_dropped",
                             DictGet(streams[id], "bytes_dropped", 0))]
    /\ out' = Append(out, "Report")
    /\ \E p \in BOOLEAN : pc' = IF p THEN "plot" ELSE "returned0"
    /\ UNCHANGED <<gap_events, deadline_events, logsLeft, qlogsLeft,
                   nread, openMark, applied, exc>>

\* lines 326-329 and 160-217: calculate_metrics returns and the report is
\* written; p is whether --plot was given
GenerateReport ==
    /\ pc = "qlogs"
    /\ qlogsLeft = 0
    /\ ~calculate_metrics(streams).raised
    /\ metrics' = calculate_metrics(streams)
    /\ \E now \in WallClock :
        report' = report_text(streams, calculate_metrics(streams), now)
    /\ out' = Append(out, "Report")
    /\ \E p \in BOOLEAN : pc' = IF p THEN "plot" ELSE "returned0"
    /\ UNCHANGED <<streams, gap_events, deadline_events, logsLeft, qlogsLeft,
                   nread, openMark, applied, exc>>

\* lines 326 and 162: calculate_metrics raises; nothing catches it
GenerateReportRaises ==
    /\ pc = "qlogs"
    /\ qlogsLeft = 0
    /\ calculate_metrics(streams).raised
    /\ metrics' = calculate_metrics(streams)
    /\ pc' = "aborted"
    /\ exc' = TypeError
    /\ UNCHANGED <<report, streams, gap_events, deadline_events, logsLeft, qlogsLeft,
                   nread, openMark, applied, out>>

\* lines 162-213: calculate_metrics returned and lines 164-208 built the
\* report text, then open(output_file, 'w') of line 211 raises (a missing
\* directory, a directory given as the file); nothing is written or
\* printed and nothing catches it
GenerateReportWriteFails ==
    /\ pc = "qlogs"
    /\ qlogsLeft = 0
    /\ ~calculate_metrics(streams).raised
    /\ metrics' = calculate_metrics(streams)
    /\ \E now \in WallClock :
        report' = report_text(streams, calculate_metrics(streams), now)
    /\ pc' = "aborted"
    /\ exc' = "OSError"
    /\ UNCHANGED <<streams, gap_events, deadline_events, logsLeft, qlogsLeft,
                   nread, openMark, applied, out>>

\* lines 329-330 and 275-276: savefig raises on the path given with --plot;
\* nothing catches it
PlotTimelineFails ==
    /\ pc = "plot"
    /\ pc' = "aborted"
    /\ exc' = "OSError"
    /\ UNCHANGED <<report, streams, gap_events, deadline_events, logsLeft, qlogsLeft,
                   nread, openMark, applied, out, metrics>>

\* lines 329-332
PlotTimeline ==
    /\ pc = "plot"
    /\ out' = Append(out, "Timeline")
    /\ pc' = "returned0"
    /\ UNCHANGED <<report, streams, gap_events, deadline_events, logsLeft, qlogsLeft,
                   nread, openMark, applied, metrics, exc>>

Next ==
    \/ Start
    \/ OpenLog
    \/ OpenLogFails
    \/ ReadLine
    \/ ReadFails
    \/ EndOfLog
    \/ GlobQlogs
    \/ ParseQlog
    \/ GenerateReport
    \/ GenerateReportRaises
    \/ GenerateReportWriteFails
    \/ PlotTimeline
    \/ PlotTimelineFails

Spec == Init /\ [][Next]_vars

TypeOK ==
    /\ pc \in {"start", "logs", "reading", "globqlogs", "qlogs", "plot",
               "returned0", "returned1", "aborted"}
    /\ nread \in 0..MaxItems
    /\ logsLeft \in 0..MaxLogFiles
    /\ qlogsLeft \in 0..MaxQlogFiles
    /\ Len(gap_events) <= MaxItems
    /\ report # <<>> => pc \in {"plot", "returned0", "aborted"}

----------------------------------------------------------------------------
(* Reading the history *)

KeyedKinds == {"DeadlineSet", "Drop", "Completed", "StreamBlocked"}

\* the events of the history keyed by stream id
EventsFor(id) ==
    LET T(e) == e.kind \in KeyedKinds /\ e.id = id IN SelectSeq(applied, T)

DropsFor(id) ==
    LET T(e) == e.kind = "Drop" /\ e.id = id IN SelectSeq(applied, T)

AllDrops == LET T(e) == e.kind = "Drop" IN SelectSeq(applied, T)

SetsFor(id) ==
    LET T(e) == e.kind = "DeadlineSet" /\ e.id = id IN SelectSeq(applied, T)

TraceEvents == LET T(e) == e.kind = "DeadlineTrace" IN SelectSeq(applied, T)

KeyedIds == {applied[i].id : i \in {j \in 1..Len(applied) : applied[j].kind \in KeyedKinds}}

\* the sum of the numbers carried by a sequence of events
RECURSIVE SumN(_)
SumN(es) == IF es = <<>> THEN 0 ELSE Head(es).n + SumN(Tail(es))

\* the gap entries of a gap sequence that belong to one stream
GapsOf(g, id) == LET T(x) == x.stream_id = id IN SelectSeq(g, T)

\* Section 4.2: the aggregator operation of one event, on
\* [s, g, d] = streams, gap sequence, deadline-trace sequence
ApplyEvent(st, e) ==
    CASE e.kind = "DeadlineSet" ->
            [st EXCEPT !.s = ApplyDeadlineSet(st.s, e.id, e.n, e.hard, e.time)]
      [] e.kind = "Drop" ->
            [st EXCEPT !.s = ApplyDropRecord(st.s, e.id, e.n),
                       !.g = Append(st.g, GapEntry(e.id, e.n, e.time))]
      [] e.kind = "Completed" ->
            [st EXCEPT !.s = ApplyCompleted(st.s, e.id, e.time)]
      [] e.kind = "StreamBlocked" ->
            [st EXCEPT !.s = ApplyBlocked(st.s, e.id)]
      [] e.kind = "DeadlineTrace" ->
            [st EXCEPT !.d = Append(st.d,
                 [time |-> e.n, type |-> e.type,
                  data |-> [type |-> e.type, has_id |-> e.has_id,
                            stream_id |-> e.id]])]

RECURSIVE ApplyAll(_, _)
ApplyAll(st, es) ==
    IF es = <<>> THEN st ELSE ApplyAll(ApplyEvent(st, Head(es)), Tail(es))

EmptyAgg == [s |-> EmptyDict, g |-> <<>>, d |-> <<>>]

\* the keyed events of the history regrouped stream by stream (ascending
\* id), each stream's events in their own order: another interleaving of
\* the same per-stream event sequences
RECURSIVE GroupedById(_)
GroupedById(ids) ==
    IF ids = {} THEN <<>>
    ELSE LET m == CHOOSE x \in ids : \A y \in ids : x <= y
         IN EventsFor(m) \o GroupedById(ids \ {m})

Regrouped == ApplyAll(EmptyAgg, GroupedById(KeyedIds) \o TraceEvents)

----------------------------------------------------------------------------
(* C1 *)

\* C1 (as stated): the run's interleaving of the events of different
\* streams and the stream-by-stream regrouping of the same events end in
\* the same aggregator state: same records, same ordered gap sequence,
\* same deadline-trace sequence.
C1_AsStated ==
    /\ streams = Regrouped.s
    /\ gap_events = Regrouped.g
    /\ deadline_events = Regrouped.d

\* C1 (amended): every interleaving of the events of different streams that
\* keeps each stream's own order yields the same records, the same
\* deadline-trace sequence and, stream by stream, the same gap entries in
\* the same order; the order of gap entries of different streams in the
\* global gap sequence is the application order.
C1_OrderIndependence ==
    LET r == Regrouped IN
    /\ streams = r.s
    /\ deadline_events = r.d
    /\ Len(gap_events) = Len(r.g)
    /\ \A id \in KeyedIds : GapsOf(gap_events, id) = GapsOf(r.g, id)

\* a drop of stream 5 was applied before a drop of stream 4, after events
\* of both streams
C1_Witness ==
    \E i, j \in 1..Len(applied) :
        /\ i < j
        /\ applied[i].kind = "Drop" /\ applied[i].id = 5
        /\ applied[j].kind = "Drop" /\ applied[j].id = 4
        /\ Len(applied) >= 3

----------------------------------------------------------------------------
(* C2 *)

\* C2: for every stream id bytes_dropped is the sum of the byte counts of
\* the Drop events applied for it, and the gap sequence is exactly one
\* entry per Drop event applied, in application order.
C2_DropAccumulation ==
    /\ \A id \in KeyedIds \cup DOMAIN streams :
          IF DropsFor(id) = <<>>
          THEN id \notin DOMAIN streams \/ "bytes_dropped" \notin DOMAIN streams[id]
          ELSE /\ id \in DOMAIN streams
               /\ "bytes_dropped" \in DOMAIN streams[id]
               /\ streams[id]["bytes_dropped"] = SumN(DropsFor(id))
    /\ Len(gap_events) = Len(AllDrops)
    /\ \A i \in 1..Len(AllDrops) :
          gap_events[i] = [stream_id |-> AllDrops[i].id,
                           bytes_dropped |-> AllDrops[i].n,
                           time |-> AllDrops[i].time]

\* several drops of stream 4 with another event applied as well
C2_Witness ==
    /\ Len(DropsFor(4)) >= 2
    /\ Len(applied) > Len(DropsFor(4))
    /\ streams[4]["bytes_dropped"] >= 40
    /\ Len(gap_events) = 3

----------------------------------------------------------------------------
(* C3 *)

IsPrefix(a, b) == Len(a) <= Len(b) /\ \A i \in 1..Len(a) : a[i] = b[i]

MonotoneStep ==
    /\ \A id \in DOMAIN streams :
        /\ id \in DOMAIN streams'
        /\ DictGet(streams'[id], "bytes_dropped", 0)
              >= DictGet(streams[id], "bytes_dropped", 0)
        /\ DictGet(streams'[id], "blocked_events", 0)
              >= DictGet(streams[id], "blocked_events", 0)
        /\ DictGet(streams[id], "completed", FALSE)
              => DictGet(streams'[id], "completed", FALSE)
    /\ IsPrefix(gap_events, gap_events')
    /\ IsPrefix(deadline_events, deadline_events')

\* C3: in every step no record is removed, bytes_dropped and blocked_events
\* do not decrease, completed does not go back to false, and the gap and
\* deadline-trace sequences only grow at the end.
C3_Monotone == [][MonotoneStep]_vars

\* a record with drops, completion and blocked events, and both sequences
\* non-empty
C3_Witness ==
    /\ 4 \in DOMAIN streams
    /\ DictGet(streams[4], "bytes_dropped", 0) > 0
    /\ DictGet(streams[4], "completed", FALSE)
    /\ DictGet(streams[4], "blocked_events", 0) > 0
    /\ Len(gap_events) >= 1
    /\ Len(deadline_events) >= 1

----------------------------------------------------------------------------
(* C4 *)

\* the step is a parse_qlog call that reported a failure
QlogFailureStep ==
    /\ Len(out') = Len(out) + 2
    /\ out'[Len(out')] = "ErrorParsingQlog"

\* C4 (as stated): a parse_qlog call that reports a failure leaves the
\* records, the gap sequence and the deadline-trace sequence as they were
\* before the call, and the run goes on.
C4_AsStated ==
    [][QlogFailureStep =>
          /\ streams' = streams
          /\ gap_events' = gap_events
          /\ deadline_events' = deadline_events
          /\ pc' = "qlogs"]_vars

----------------------------------------------------------------------------
(* C5 *)

\* C5 (as stated): in every reachable aggregator state calculate_metrics
\* returns a metrics value; it never raises.
C5_AsStated == calculate_metrics(streams).computed

----------------------------------------------------------------------------
(* C6 *)

\* the clock value of a timestamp string, in milliseconds
ClockMs(t) ==
    CASE t = "00:00:00" -> 0
      [] t = "00:00:01" -> 1000
      [] t = "00:00:03" -> 3000

\* the records the formula of section 4.3 counts as met
ClaimedMet ==
    {id \in DOMAIN streams :
        /\ HasDeadline(streams[id]) /\ HasTimes(streams[id])
        /\ ClockMs(streams[id]["completion_time"]) - ClockMs(streams[id]["set_time"])
              <= streams[id]["deadline_ms"]}

\* C6 (as stated): the metrics carry deadlines_met, equal to the number of
\* records with both timestamps whose duration is within deadline_ms;
\* records without both timestamps are not counted.
C6_AsStated ==
    LET m == calculate_metrics(streams) IN
    IF m.computed THEN m.deadlines_met = Cardinality(ClaimedMet) ELSE FALSE

----------------------------------------------------------------------------
(* C7 *)

\* the three lines of the scenario were read from one log file, nothing else
ScenarioRead ==
    /\ applied = <<EvDeadlineSet(4, 100, TRUE, "00:00:01"),
                   EvDrop(4, 20, "00:00:03"),
                   EvCompleted(4, "00:00:00")>>
    /\ nread = 3
    /\ LET T(x) == x = "Parsing" IN Len(SelectSeq(out, T)) = 1

ScenarioRecord ==
    /\ DOMAIN streams = {4}
    /\ streams[4] = [deadline_ms |-> 100, is_hard |-> TRUE, set_time |-> "00:00:01",
                     bytes_dropped |-> 20, completed |-> TRUE,
                     completion_time |-> "00:00:00"]

\* C7 (as stated): once the scenario file has been processed and main has
\* run generate_report, there is exactly the scenario record and the
\* metrics are total_streams=1, streams_with_deadlines=1, hard_deadlines=1,
\* streams_with_drops=1, total_bytes_dropped=20, completion_rate=1.0,
\* deadlines_met=0.
C7_AsStated ==
    (/\ ScenarioRead
     /\ \/ pc \in {"plot", "returned0"}
        \/ pc = "aborted" /\ exc = TypeError) =>
        /\ ScenarioRecord
        /\ metrics.computed
        /\ metrics.total_streams = 1
        /\ metrics.streams_with_deadlines = 1
        /\ metrics.hard_deadlines = 1
        /\ metrics.streams_with_drops = 1
        /\ metrics.total_bytes_dropped = 20
        /\ metrics.completion_rate = Frac(1, 1)
        /\ metrics.deadlines_met = 0

----------------------------------------------------------------------------
(* C8 *)

\* C8 (as stated): whenever calculate_metrics returns, streams_with_drops
\* is the number of records with bytes_dropped > 0.
C8_AsStated ==
    LET m == calculate_metrics(streams) IN
    m.computed =>
        m.streams_with_drops =
            Cardinality({id \in DOMAIN streams :
                            DictGet(streams[id], "bytes_dropped", 0) > 0})

----------------------------------------------------------------------------
(* C9 *)

Last(es) == es[Len(es)]

\* C9: for every stream with a DeadlineSet in the history, deadline_ms,
\* is_hard and set_time are those of the last one, and applying that
\* DeadlineSet once more changes nothing.
C9_LastWriterWins ==
    \A id \in KeyedIds :
        SetsFor(id) # <<>> =>
            LET e == Last(SetsFor(id)) IN
            /\ id \in DOMAIN streams
            /\ {"deadline_ms", "is_hard", "set_time"} \subseteq DOMAIN streams[id]
            /\ streams[id]["deadline_ms"] = e.n
            /\ streams[id]["is_hard"] = e.hard
            /\ streams[id]["set_time"] = e.time
            /\ ApplyDeadlineSet(streams, e.id, e.n, e.hard, e.time) = streams

\* stream 4 got two DeadlineSet events with different payloads
C9_Witness ==
    /\ Len(SetsFor(4)) >= 2
    /\ SetsFor(4)[1] # Last(SetsFor(4))

----------------------------------------------------------------------------
(* C10 *)

\* C10 (as stated): a log file that cannot be read does not end the run,
\* and none of its events has been applied.
C10_AsStated ==
    exc \in {"OSError", "ReadError"} =>
        /\ pc # "aborted"
        /\ Len(applied) = openMark


----------------------------------------------------------------------------
(* C11 *)

\* a fraction is a number (its denominator is not 0) and equals a / b
IsRatio(f, a, b) == f.den # 0 /\ b # 0 /\ f.num * b = a * f.den

IsZero(f) == f.den # 0 /\ f.num = 0

CompletedIds == {id \in DOMAIN streams : DictGet(streams[id], "completed", FALSE)}

DeadlineIds == {id \in DOMAIN streams : "deadline_ms" \in DOMAIN streams[id]}

\* C11: in the metrics returned, deadline_compliance_rate is
\* deadlines_met / streams_with_deadlines when streams_with_deadlines > 0
\* and 0 otherwise, completion_rate is (completed records) / total_streams
\* when total_streams > 0 and 0 otherwise; without any record carrying
\* deadline_ms the metrics are returned with deadline_compliance_rate and
\* avg_deadline_margin both 0.
C11_ZeroFallback ==
    LET m == calculate_metrics(streams) IN
    /\ m.computed =>
        /\ IF m.streams_with_deadlines > 0
           THEN IsRatio(m.deadline_compliance_rate, m.deadlines_met,
                        m.streams_with_deadlines)
           ELSE IsZero(m.deadline_compliance_rate)
        /\ IF m.total_streams > 0
           THEN IsRatio(m.completion_rate, Cardinality(CompletedIds),
                        m.total_streams)
           ELSE IsZero(m.completion_rate)
    /\ DeadlineIds = {} =>
        /\ m.computed
        /\ IsZero(m.deadline_compliance_rate)
        /\ IsZero(m.avg_deadline_margin)

\* metrics were returned for two records, one with a deadline and the other
\* completed: a compliance rate over 1 and a completion rate of 1/2
C11_Witness ==
    /\ metrics.computed
    /\ metrics.streams_with_deadlines = 1
    /\ metrics.total_streams = 2
    /\ metrics.completion_rate = Frac(1, 2)


----------------------------------------------------------------------------
(* C12 *)

\* a step that processes one line of a text log (one iteration of line 36)
LineStep == pc = "reading" /\ nread' = nread + 1

\* the events the step added to the history
NewEvents == SubSeq(applied', Len(applied) + 1, Len(applied'))

\* the patterns in the order the iteration tries them (lines 38, 48, 66)
PatternRank(kind) ==
    CASE kind = "DeadlineSet" -> 1
      [] kind = "Drop" -> 2
      [] kind = "Completed" -> 3
      [] OTHER -> 0

\* C12 as stated: processing a single line applies at most one event to the
\* aggregator.
C12_AsStated ==
    [][LineStep => Len(applied') <= Len(applied) + 1]_vars

\* C12: the three patterns are tried independently on every line, so one
\* line applies at most one event per pattern (at most three in all), in the
\* order deadline-set, drop, completion, all with the line's timestamp, and
\* the aggregator after the line is the aggregator before it with exactly
\* these events applied in that order.
C12_OnePerPattern ==
    [][LineStep =>
        /\ IsPrefix(applied, applied')
        /\ Len(NewEvents) <= 3
        /\ \A i \in 1..Len(NewEvents) :
            /\ PatternRank(NewEvents[i].kind) > 0
            /\ NewEvents[i].time = NewEvents[1].time
            /\ \A j \in 1..Len(NewEvents) :
                i < j => PatternRank(NewEvents[i].kind)
                            < PatternRank(NewEvents[j].kind)
        /\ [s |-> streams', g |-> gap_events', d |-> deadline_events']
            = ApplyAll([s |-> streams, g |-> gap_events,
                        d |-> deadline_events], NewEvents)]_vars

\* one line was read and it was applied both as a Drop and as a Completed
\* event of the same stream
C12_Witness ==
    /\ nread = 1
    /\ Len(applied) = 2
    /\ applied[1].kind = "Drop"
    /\ applied[2].kind = "Completed"
    /\ 4 \in DOMAIN streams
    /\ DictGet(streams[4], "completed", FALSE)
    /\ DictGet(streams[4], "bytes_dropped", 0) = 20


----------------------------------------------------------------------------
(* C13 *)

ReportProduced == pc \in {"plot", "returned0"}

\* C13 (as stated): over the same records and metrics the report text is
\* the same whatever the wall-clock time at which it is generated: the
\* report a run produced equals the report rendered from the same records
\* and metrics at any other time.
C13_AsStated ==
    ReportProduced =>
        \A now \in WallClock : report_text(streams, metrics, now) = report

----------------------------------------------------------------------------
(* C14 *)

\* the events of one kind that reference one id, in the order applied
KindFor(kind, id) ==
    LET T(e) == e.kind = kind /\ e.id = id IN SelectSeq(applied, T)

\* C14: there is one record per stream id across both sources: the keys of
\* the record map are exactly the ids referenced by applied events, the
\* record of an id carries what all the events of that id wrote, whichever
\* source they came from (deadline fields, dropped bytes, completion,
\* blocked count), and total_streams is the number of distinct ids
\* referenced.
C14_OneRecordPerId ==
    /\ DOMAIN streams = KeyedIds
    /\ \A id \in KeyedIds :
        LET r == streams[id]
            drops == KindFor("Drop", id)
            blocked == KindFor("StreamBlocked", id)
        IN
        /\ ("deadline_ms" \in DOMAIN r) <=> (KindFor("DeadlineSet", id) # <<>>)
        /\ ("bytes_dropped" \in DOMAIN r) <=> (drops # <<>>)
        /\ DictGet(r, "bytes_dropped", 0) = SumN(drops)
        /\ DictGet(r, "completed", FALSE) <=> (KindFor("Completed", id) # <<>>)
        /\ ("blocked_events" \in DOMAIN r) <=> (blocked # <<>>)
        /\ DictGet(r, "blocked_events", 0) = Len(blocked)
    /\ LET m == calculate_metrics(streams) IN
        m.computed => m.total_streams = Cardinality(KeyedIds)
    /\ metrics.computed => metrics.total_streams = Cardinality(KeyedIds)

\* stream 4 was referenced by a drop line of a text log and then by a
\* blocked event of a trace, stream 5 by a text log only; the metrics count
\* two streams
C14_Witness ==
    /\ DOMAIN streams = {4, 5}
    /\ DictGet(streams[4], "bytes_dropped", 0) = 20
    /\ DictGet(streams[4], "blocked_events", 0) = 1
    /\ metrics.computed
    /\ metrics.total_streams = 2


----------------------------------------------------------------------------
(* C15 *)

\* C15: when the glob of the client logs finds no file, the run prints the
\* failure message and returns status 1: at that point no file was parsed,
\* no event applied, no metrics computed, no report and no timeline
\* rendered, and nothing happens afterwards.
C15_NoLogsFails ==
    /\ [](pc = "returned1" =>
            /\ out = <<"NoClientLogs">>
            /\ logsLeft = 0
            /\ nread = 0
            /\ applied = <<>>
            /\ streams = EmptyDict
            /\ gap_events = <<>>
            /\ deadline_events = <<>>
            /\ metrics = NoMetrics
            /\ report = <<>>
            /\ exc = "none")
    /\ [][/\ (pc = "start" /\ logsLeft' = 0) => pc' = "returned1"
          /\ pc = "returned1" => UNCHANGED vars]_vars

\* the run returned 1 after the message that no client log was found
C15_Witness ==
    /\ pc = "returned1"
    /\ out = <<"NoClientLogs">>


----------------------------------------------------------------------------
(* C16 *)

\* deadline_ms - duration of a record that has a deadline and both times
ClaimedMargin(id) ==
    streams[id]["deadline_ms"]
        - (ClockMs(streams[id]["completion_time"])
            - ClockMs(streams[id]["set_time"]))

RECURSIVE SumMargins(_)
SumMargins(ids) ==
    IF ids = {} THEN 0
    ELSE LET id == CHOOSE i \in ids : TRUE
         IN  ClaimedMargin(id) + SumMargins(ids \ {id})

\* C16 (as stated): the metrics carry avg_deadline_margin, the mean of
\* deadline_ms - duration over exactly the records counted as met, and 0
\* when no record is counted as met.
C16_AsStated ==
    LET m == calculate_metrics(streams) IN
    IF m.computed
    THEN /\ m.deadlines_met = Cardinality(ClaimedMet)
         /\ IF ClaimedMet = {} THEN IsZero(m.avg_deadline_margin)
            ELSE IsRatio(m.avg_deadline_margin, SumMargins(ClaimedMet),
                         Cardinality(ClaimedMet))
    ELSE FALSE


----------------------------------------------------------------------------
(* C17 *)

\* how many times a message was printed
Count(tag) == LET T(x) == x = tag IN Len(SelectSeq(out, T))

\* C17: in every run that produces a report the metrics are computed once,
\* after every discovered log file and every discovered trace file has been
\* processed, and once the metrics are computed no event is applied to the
\* aggregator and the metrics are not computed again.
C17_RunOrdering ==
    /\ [](ReportProduced =>
            /\ metrics.computed
            /\ Count("Report") = 1
            /\ logsLeft = 0
            /\ qlogsLeft = 0)
    /\ [][/\ metrics' # metrics =>
                /\ metrics = NoMetrics
                /\ pc = "qlogs"
                /\ logsLeft = 0
                /\ qlogsLeft = 0
          /\ metrics # NoMetrics => UNCHANGED <<metrics, applied, agg>>
          /\ Count("Report")' # Count("Report") => metrics' # metrics]_vars

\* a report was produced after a log file and a trace file were processed
\* and events of both were applied
C17_Witness ==
    /\ pc = "returned0"
    /\ metrics.computed
    /\ Count("Parsing") = 1
    /\ Count("ParsingQlog") = 1
    /\ \E i \in 1..Len(applied) : applied[i].kind = "Drop"
    /\ \E i \in 1..Len(applied) : applied[i].kind = "StreamBlocked"


----------------------------------------------------------------------------
(* C18 *)

\* a step of generate_report: calculate_metrics ran (it returned or raised)
\* and, when it returned, the report was rendered
ReportStep == metrics' # metrics \/ report' # report

\* C18: calculate_metrics and generate_report leave the aggregator as it
\* was: the keys of the record map, every field of every record, the gap
\* sequence and the deadline-trace sequence; computing the metrics again on
\* the state they left gives the value they returned.
C18_Pure ==
    /\ [][ReportStep =>
            /\ DOMAIN streams' = DOMAIN streams
            /\ \A id \in DOMAIN streams : streams'[id] = streams[id]
            /\ gap_events' = gap_events
            /\ deadline_events' = deadline_events
            /\ metrics' = calculate_metrics(streams')]_vars
    /\ [](metrics # NoMetrics => metrics = calculate_metrics(streams))

\* the report was generated over a record without bytes_dropped and a
\* non-empty gap sequence and deadline-trace sequence
C18_Witness ==
    /\ ReportProduced
    /\ metrics.computed
    /\ \E id \in DOMAIN streams : "bytes_dropped" \notin DOMAIN streams[id]
    /\ gap_events # <<>>
    /\ deadline_events # <<>>


----------------------------------------------------------------------------
(* C19 *)

\* trace events tried on every reachable state: those of the trace files
\* and further types (upper and mixed case, "deadline" inside a longer
\* word, a blocked type with a suffix, in another case, or cut short, a
\* blocked event of stream 5)
ProbeEvents ==
    {e \in QEvents : e.wellformed}
    \cup { QEvent(15, TRUE, <<"d", "E", "A", "D", "L", "i", "N", "E">>, FALSE, 0),
           QEvent(16, TRUE, stream_data_blocked \o <<"_">> \o deadline, TRUE, 4),
           QEvent(17, TRUE, stream_data_blocked, TRUE, 5),
           QEvent(18, TRUE, <<"S">> \o Tail(stream_data_blocked), TRUE, 4),
           QEvent(19, TRUE, <<"p", "r", "e">> \o deadline \o <<"s">>, TRUE, 5),
           QEvent(20, TRUE, <<"d", "e", "a", "d", "_", "l", "i", "n", "e">>, TRUE, 4) }

\* the type is exactly stream_data_blocked and the payload has a stream_id
ClaimedBlocked(e) ==
    /\ e.type = stream_data_blocked
    /\ e.has_id

\* the type contains "deadline" in any case
DeadlineLetters ==
    << {"d", "D"}, {"e", "E"}, {"a", "A"}, {"d", "D"},
       {"l", "L"}, {"i", "I"}, {"n", "N"}, {"e", "E"} >>

ClaimedDeadline(e) ==
    \E i \in 0..(Len(e.type) - 8) :
        \A k \in 1..8 : e.type[i + k] \in DeadlineLetters[k]

\* the record map t is the record map s with blocked_events of id increased
\* by 1 (the record created if absent) and nothing else changed
BlockedOnce(s, t, id) ==
    /\ DOMAIN t = DOMAIN s \cup {id}
    /\ \A other \in DOMAIN s : other # id => t[other] = s[other]
    /\ LET old == IF id \in DOMAIN s THEN s[id] ELSE EmptyDict IN
        /\ DOMAIN t[id] = DOMAIN old \cup {"blocked_events"}
        /\ \A f \in DOMAIN old : f # "blocked_events" => t[id][f] = old[f]
        /\ t[id]["blocked_events"]
            = (IF "blocked_events" \in DOMAIN old
               THEN old["blocked_events"] ELSE 0) + 1

\* C19: a trace event changes a stream record only when its type is exactly
\* stream_data_blocked and it carries a stream_id: then blocked_events of
\* that id's record grows by 1 (the record created if absent) and nothing
\* else changes; an event whose type contains "deadline" in any case is
\* appended to the deadline-trace sequence and changes no record; any other
\* trace event changes nothing. The events are tried on the states main
\* parses trace files in.
C19_TraceEffects ==
    /\ pc = "qlogs" => \A e \in ProbeEvents :
        LET r == parse_qlog([load |-> "ok", events |-> <<e>>],
                            streams, deadline_events)
        IN  /\ ~r.failed
            /\ IF ClaimedBlocked(e) THEN BlockedOnce(streams, r.s, e.stream_id)
               ELSE r.s = streams
            /\ IF ClaimedDeadline(e)
               THEN /\ Len(r.d) = Len(deadline_events) + 1
                    /\ IsPrefix(deadline_events, r.d)
                    /\ r.d[Len(r.d)].time = e.time
                    /\ r.d[Len(r.d)].type = e.type
               ELSE r.d = deadline_events
    /\ Len(deadline_events) = Len(TraceEvents)

\* a trace with a blocked event of stream 4 and a deadline event was parsed
\* after a log that set a deadline on stream 4: the record kept its deadline
\* and counts one blocked event, the deadline event is in the sequence
C19_Witness ==
    /\ 4 \in DOMAIN streams
    /\ DictGet(streams[4], "blocked_events", 0) = 1
    /\ DictGet(streams[4], "deadline_ms", 0) = 100
    /\ Len(deadline_events) = 1
    /\ deadline_events[1].type = Deadline_missed
    /\ 5 \notin DOMAIN streams


----------------------------------------------------------------------------
(* C20 *)

\* the sum of bytes_dropped over a sequence of gap entries
RECURSIVE SumGaps(_)
SumGaps(g) ==
    IF g = <<>> THEN 0 ELSE Head(g).bytes_dropped + SumGaps(Tail(g))

\* the stream ids a state mentions, in a record or in a gap entry
MentionedIds ==
    DOMAIN streams \cup {gap_events[i].stream_id : i \in 1..Len(gap_events)}

\* bytes_dropped of the record of id, 0 when the record or the field is absent
RecordDropped(id) ==
    IF id \in DOMAIN streams
    THEN DictGet(streams[id], "bytes_dropped", 0) ELSE 0

\* C20: in every reachable state, for every stream id the record's
\* bytes_dropped (0 when the record or the field is absent) is the sum of
\* bytes_dropped over the gap entries of that stream id, and the
\* total_bytes_dropped of the metrics is the sum of bytes_dropped over the
\* whole gap sequence.
C20_Conservation ==
    /\ \A id \in MentionedIds :
        RecordDropped(id) = SumGaps(GapsOf(gap_events, id))
    /\ LET m == calculate_metrics(streams) IN
        m.computed => m.total_bytes_dropped = SumGaps(gap_events)
    /\ metrics.computed => metrics.total_bytes_dropped = SumGaps(gap_events)

\* two drops of 20 bytes of stream 4 and a zero-byte drop of stream 5 were
\* read, and the metrics report 40 bytes
C20_Witness ==
    /\ Len(gap_events) = 3
    /\ RecordDropped(4) = 40
    /\ 5 \in DOMAIN streams
    /\ "bytes_dropped" \in DOMAIN streams[5]
    /\ metrics.computed
    /\ metrics.total_bytes_dropped = 40

====
